---------------------------- MODULE Spec2Model ----------------------------
(***************************************************************************)
(* MachO-Kit core (libMachO/Core/core.c): checked address arithmetic,      *)
(* ranges, byte order tables and the type runtime.                         *)
(*                                                                         *)
(* Every function of core.c is an operator computed the way the C code     *)
(* computes it; every action is one call of a public function by a client, *)
(* recording the arguments in `call`, the returned value in `ret` and the  *)
(* caller-owned memory the call may write in `cell` / `data`.              *)
(*                                                                         *)
(* The four components share no state, so each has its own specification:  *)
(* SpecArith, SpecRange, SpecByteOrder and SpecTypes.  A definition whose   *)
(* name ends in a fault (_NoCheck, _OffByOne, ...) is the function before   *)
(* it in the C file with that fault seeded; the properties at the end must  *)
(* tell each of them from the real function.                               *)
(***************************************************************************)
EXTENDS Integers, Sequences, FiniteSets, TLC

VARIABLES
    call,       \* the last call made into the core: function name + arguments
    ret,        \* what that call returned
    cell,       \* the caller's mk_vm_address_t that a `result` pointer points to
    registry,   \* the static vtables: descriptor address -> struct _mk_type_vtable
    byteorder,  \* the mk_byteorder_t the decoder selected for the binary
    data,       \* the caller-owned field the byte order operations are applied to
    orig,       \* the field as it was read from the binary, before any swap
    nswaps      \* how many times the decoder has applied the byte order to `data`

vars == <<call, ret, cell, registry, byteorder, data, orig, nswaps>>

-----------------------------------------------------------------------------
(* Bounds of the model.                                                    *)

\* Largest value of mk_vm_address_t / mk_vm_size_t / mk_vm_offset_t in the
\* model (UINT64_MAX in the program); arithmetic wraps modulo WordMax + 1.
WordMax == 15

\* Number of values one byte can take in the model (256 in the program).
ByteValues == 3

\* Longest caller buffer handed to the generic swap.
MaxBufLen == 4

\* How many times the decoder applies the byte order to the same field.
MaxSwaps == 2

\* Number of type descriptors besides the root _mk_type_class.
MaxTypes == 2

\* Number of distinct handle addresses (objects) per descriptor.
MaxInstances == 2

-----------------------------------------------------------------------------
(* Errors                                                                  *)

MK_ESUCCESS == "SUCCESS"
MK_ENOT_FOUND == "NOT FOUND"
MK_EOVERFLOW == "OVERFLOW"
MK_EUNDERFLOW == "UNDERFLOW"

\* The null pointer.
NULL == "NULL"

-----------------------------------------------------------------------------
(* Unsigned fixed-width integers                                           *)

MK_VM_ADDRESS_MAX == WordMax
MK_VM_SIZE_MAX == WordMax

Word == 0..WordMax

\* C unsigned arithmetic: the result of + and - reduced modulo 2^width.
Wrap(x) == x % (WordMax + 1)

-----------------------------------------------------------------------------
(* Type Safe Operations                                                    *)
(* `result` is the pointer argument (NULL or "&cell"), `mem` the content   *)
(* of the pointee before the call; the operators return the error code and *)
(* the content of the pointee after the call.                              *)

mk_vm_address_apply_offset_NoCheck(addr, offset, result, mem) ==
    [err |-> MK_ESUCCESS,
     mem |-> IF result # NULL THEN Wrap(addr + offset) ELSE mem]

mk_vm_address_apply_offset(addr, offset, result, mem) ==
    IF Wrap(MK_VM_ADDRESS_MAX - offset) < addr
    THEN [err |-> MK_EOVERFLOW, mem |-> mem]
    ELSE [err |-> MK_ESUCCESS,
          mem |-> IF result # NULL THEN Wrap(addr + offset) ELSE mem]

mk_vm_address_add(addr1, addr2, result, mem) ==
    IF Wrap(MK_VM_ADDRESS_MAX - addr2) < addr1
    THEN [err |-> MK_EOVERFLOW, mem |-> mem]
    ELSE [err |-> MK_ESUCCESS,
          mem |-> IF result # NULL THEN Wrap(addr1 + addr2) ELSE mem]

mk_vm_address_substract_OffByOne(left, right, result, mem) ==
    IF right >= left
    THEN [err |-> MK_EUNDERFLOW, mem |-> mem]
    ELSE [err |-> MK_ESUCCESS,
          mem |-> IF result # NULL THEN Wrap(left - right) ELSE mem]

mk_vm_address_substract(left, right, result, mem) ==
    IF right > left
    THEN [err |-> MK_EUNDERFLOW, mem |-> mem]
    ELSE [err |-> MK_ESUCCESS,
          mem |-> IF result # NULL THEN Wrap(left - right) ELSE mem]

mk_vm_address_check_length(addr, length) ==
    IF Wrap(MK_VM_SIZE_MAX - length) < addr
    THEN MK_EOVERFLOW
    ELSE MK_ESUCCESS

-----------------------------------------------------------------------------
(* Ranges                                                                  *)

mk_vm_range_make(location, length) ==
    [location |-> location, length |-> length]

mk_vm_range_contains_address_Inclusive(range, offset, address) ==
    LET applied == mk_vm_address_apply_offset(address, offset, "&address", address)
        err == applied.err
        addr == applied.mem
    IN  IF err # MK_ESUCCESS THEN err
        ELSE IF Wrap(MK_VM_SIZE_MAX - range.length) < range.location
             THEN MK_EOVERFLOW
        ELSE IF addr < range.location
                \/ addr > Wrap(range.location + range.length)
             THEN MK_ENOT_FOUND
        ELSE MK_ESUCCESS

mk_vm_range_contains_address_NoRangeCheck(range, offset, address) ==
    LET applied == mk_vm_address_apply_offset(address, offset, "&address", address)
        err == applied.err
        addr == applied.mem
    IN  IF err # MK_ESUCCESS THEN err
        ELSE IF addr < range.location
                \/ addr >= Wrap(range.location + range.length)
             THEN MK_ENOT_FOUND
        ELSE MK_ESUCCESS

\* The address is first displaced in place (the local `address` is both the
\* input and the pointee of `result`), then the range is validated, then
\* the comparison is made.
mk_vm_range_contains_address(range, offset, address) ==
    LET applied == mk_vm_address_apply_offset(address, offset, "&address", address)
        err == applied.err
        addr == applied.mem
    IN  IF err # MK_ESUCCESS THEN err
        ELSE IF Wrap(MK_VM_SIZE_MAX - range.length) < range.location
             THEN MK_EOVERFLOW
        ELSE IF addr < range.location
                \/ addr >= Wrap(range.location + range.length)
             THEN MK_ENOT_FOUND
        ELSE MK_ESUCCESS

mk_vm_range_contains_range_StrictStart(outer_range, inner_range, partial) ==
    IF Wrap(MK_VM_SIZE_MAX - outer_range.length) < outer_range.location
    THEN MK_EOVERFLOW
    ELSE IF Wrap(MK_VM_SIZE_MAX - inner_range.length) < inner_range.location
    THEN MK_EOVERFLOW
    ELSE IF partial
    THEN IF inner_range.location < outer_range.location
            /\ Wrap(inner_range.location + inner_range.length) < outer_range.location
         THEN MK_ENOT_FOUND
         ELSE IF inner_range.location > Wrap(outer_range.location + outer_range.length)
         THEN MK_ENOT_FOUND
         ELSE MK_ESUCCESS
    ELSE IF inner_range.location <= outer_range.location
         THEN MK_ENOT_FOUND
         ELSE IF Wrap(inner_range.location + inner_range.length)
                    > Wrap(outer_range.location + outer_range.length)
         THEN MK_ENOT_FOUND
         ELSE MK_ESUCCESS

mk_vm_range_contains_range_PartialAtEnd(outer_range, inner_range, partial) ==
    IF Wrap(MK_VM_SIZE_MAX - outer_range.length) < outer_range.location
    THEN MK_EOVERFLOW
    ELSE IF Wrap(MK_VM_SIZE_MAX - inner_range.length) < inner_range.location
    THEN MK_EOVERFLOW
    ELSE IF partial
    THEN IF inner_range.location < outer_range.location
            /\ Wrap(inner_range.location + inner_range.length) < outer_range.location
         THEN MK_ENOT_FOUND
         ELSE IF inner_range.location >= Wrap(outer_range.location + outer_range.length)
         THEN MK_ENOT_FOUND
         ELSE MK_ESUCCESS
    ELSE IF inner_range.location < outer_range.location
         THEN MK_ENOT_FOUND
         ELSE IF Wrap(inner_range.location + inner_range.length)
                    > Wrap(outer_range.location + outer_range.length)
         THEN MK_ENOT_FOUND
         ELSE MK_ESUCCESS

mk_vm_range_contains_range_PartialEitherTest(outer_range, inner_range, partial) ==
    IF Wrap(MK_VM_SIZE_MAX - outer_range.length) < outer_range.location
    THEN MK_EOVERFLOW
    ELSE IF Wrap(MK_VM_SIZE_MAX - inner_range.length) < inner_range.location
    THEN MK_EOVERFLOW
    ELSE IF partial
    THEN IF inner_range.location < outer_range.location
            \/ Wrap(inner_range.location + inner_range.length) < outer_range.location
         THEN MK_ENOT_FOUND
         ELSE IF inner_range.location > Wrap(outer_range.location + outer_range.length)
         THEN MK_ENOT_FOUND
         ELSE MK_ESUCCESS
    ELSE IF inner_range.location < outer_range.location
         THEN MK_ENOT_FOUND
         ELSE IF Wrap(inner_range.location + inner_range.length)
                    > Wrap(outer_range.location + outer_range.length)
         THEN MK_ENOT_FOUND
         ELSE MK_ESUCCESS

mk_vm_range_contains_range(outer_range, inner_range, partial) ==
    IF Wrap(MK_VM_SIZE_MAX - outer_range.length) < outer_range.location
    THEN MK_EOVERFLOW
    ELSE IF Wrap(MK_VM_SIZE_MAX - inner_range.length) < inner_range.location
    THEN MK_EOVERFLOW
    ELSE IF partial
    THEN IF inner_range.location < outer_range.location
            /\ Wrap(inner_range.location + inner_range.length) < outer_range.location
         THEN MK_ENOT_FOUND
         ELSE IF inner_range.location > Wrap(outer_range.location + outer_range.length)
         THEN MK_ENOT_FOUND
         ELSE MK_ESUCCESS
    ELSE IF inner_range.location < outer_range.location
         THEN MK_ENOT_FOUND
         ELSE IF Wrap(inner_range.location + inner_range.length)
                    > Wrap(outer_range.location + outer_range.length)
         THEN MK_ENOT_FOUND
         ELSE MK_ESUCCESS

-----------------------------------------------------------------------------
(* Byte Order                                                              *)
(* A w-bit value is the number whose base-ByteValues digits are its bytes, *)
(* least significant first; a buffer is the sequence of its bytes.         *)

RECURSIVE Pow(_, _)
Pow(b, n) == IF n = 0 THEN 1 ELSE b * Pow(b, n - 1)

UInt8 == 0..(ByteValues - 1)
UInt16 == 0..(Pow(ByteValues, 2) - 1)
UInt32 == 0..(Pow(ByteValues, 4) - 1)
UInt64 == 0..(Pow(ByteValues, 8) - 1)

\* Byte i of x (x >> 8*i) & 0xff, and a byte moved to position i (b << 8*i).
ByteAt(x, i) == (x \div Pow(ByteValues, i)) % ByteValues
ByteTo(b, i) == b * Pow(ByteValues, i)

OSSwapInt16(x) == ByteTo(ByteAt(x, 0), 1) + ByteTo(ByteAt(x, 1), 0)

OSSwapInt32(x) ==
    ByteTo(ByteAt(x, 0), 3) + ByteTo(ByteAt(x, 1), 2)
    + ByteTo(ByteAt(x, 2), 1) + ByteTo(ByteAt(x, 3), 0)

OSSwapInt64(x) ==
    ByteTo(ByteAt(x, 0), 7) + ByteTo(ByteAt(x, 1), 6)
    + ByteTo(ByteAt(x, 2), 5) + ByteTo(ByteAt(x, 3), 4)
    + ByteTo(ByteAt(x, 4), 3) + ByteTo(ByteAt(x, 5), 2)
    + ByteTo(ByteAt(x, 6), 1) + ByteTo(ByteAt(x, 7), 0)

_mk_swap16(input) == OSSwapInt16(input)
_mk_nswap16(input) == input
_mk_swap32(input) == OSSwapInt32(input)
_mk_nswap32(input) == input
_mk_swap64(input) == OSSwapInt64(input)
_mk_nswap64(input) == input

\* The loop of _mk_swap from index i on; input[i] of the C code is
\* input[i + 1] of the sequence.
RECURSIVE _mk_swap_loop(_, _, _, _)
_mk_swap_loop(input, length, i, limit) ==
    IF i < limit
    THEN LET temp == input[i + 1]
         IN  _mk_swap_loop([input EXCEPT ![i + 1] = input[length - i],
                                         ![length - i] = temp],
                           length, i + 1, limit)
    ELSE input

_mk_swap_WholeLength(input, length) == _mk_swap_loop(input, length, 0, length)

_mk_swap(input, length) == _mk_swap_loop(input, length, 0, length \div 2)

_mk_nswap(input, length) == input

\* The two tables hold the addresses of the functions above.
mk_byteorder_direct ==
    [swap16 |-> "_mk_nswap16", swap32 |-> "_mk_nswap32",
     swap64 |-> "_mk_nswap64", swap |-> "_mk_nswap"]

mk_byteorder_swapped ==
    [swap16 |-> "_mk_swap16", swap32 |-> "_mk_swap32",
     swap64 |-> "_mk_swap64", swap |-> "_mk_swap"]

\* A call through a function pointer of a byte order table.
CallSwap16(fn, input) ==
    CASE fn = "_mk_swap16" -> _mk_swap16(input)
      [] fn = "_mk_nswap16" -> _mk_nswap16(input)

CallSwap32(fn, input) ==
    CASE fn = "_mk_swap32" -> _mk_swap32(input)
      [] fn = "_mk_nswap32" -> _mk_nswap32(input)

CallSwap64(fn, input) ==
    CASE fn = "_mk_swap64" -> _mk_swap64(input)
      [] fn = "_mk_nswap64" -> _mk_nswap64(input)

CallSwap(fn, input, length) ==
    CASE fn = "_mk_swap" -> _mk_swap(input, length)
      [] fn = "_mk_nswap" -> _mk_nswap(input, length)

-----------------------------------------------------------------------------
(* Classes                                                                 *)
(* A pointer is the name of what it points to; a handle (mk_type_ref) is   *)
(* the object it points to, [vtable, instance], so that two handles are    *)
(* the same pointer iff they are the same record.                          *)

__mk_type_get_context(self) == NULL

__mk_type_equal(self, other) == self = other

\* The root vtable.
_mk_type_class ==
    [super |-> NULL,
     name |-> "",
     get_context |-> "__mk_type_get_context",
     equal |-> "__mk_type_equal",
     copy_description |-> "__mk_type_copy_description"]

\* The address of the root vtable and of the other vtables of the library.
RootAddr == "_mk_type_class"
TypeAddr(i) == IF i = 0 THEN RootAddr ELSE "T" \o ToString(i)
TypeIndex(v) == CHOOSE i \in 0..MaxTypes : TypeAddr(i) = v
Descriptors == {TypeAddr(i) : i \in 0..MaxTypes}

Slots == {"name", "get_context", "equal", "copy_description"}

\* The vtable of a concrete type: its parent, and for each slot either NULL
\* or the type's own name / the address of the type's own function.
TypeVtable(v, super, defined) ==
    [super |-> super,
     name |-> IF "name" \in defined THEN v ELSE NULL,
     get_context |-> IF "get_context" \in defined
                     THEN v \o ".get_context" ELSE NULL,
     equal |-> IF "equal" \in defined THEN v \o ".equal" ELSE NULL,
     copy_description |-> IF "copy_description" \in defined
                          THEN v \o ".copy_description" ELSE NULL]

\* Every single-parent hierarchy under the root: the parent of a type is the
\* root or a type declared before it, and every type fills any of its slots.
Registries ==
    {[v \in Descriptors |->
        IF v = RootAddr THEN _mk_type_class
        ELSE TypeVtable(v, TypeAddr(parent[TypeIndex(v)]), defined[TypeIndex(v)])] :
     parent \in {p \in [1..MaxTypes -> 0..MaxTypes] : \A i \in 1..MaxTypes : p[i] < i},
     defined \in [1..MaxTypes -> SUBSET Slots]}

Handles == [vtable : Descriptors, instance : 1..MaxInstances]

\* What a walk that steps past the root does: it reads a member of the
\* vtable at NULL, which is undefined.  No call of SpecTypes ever returns
\* it (C10), so the model never has to say what happens next.
NullDereference == "fault: NULL vtable dereferenced"

-----------------------------------------------------------------------------
(* Runtime                                                                 *)

mk_type_is(mk, type) ==
    LET vtable == mk.vtable
    IN  vtable = type

RECURSIVE mk_type_is_kind_of_loop(_, _)
mk_type_is_kind_of_loop(vtable, type) ==
    IF vtable # NULL
    THEN IF vtable = type THEN TRUE
         ELSE mk_type_is_kind_of_loop(registry[vtable].super, type)
    ELSE FALSE

mk_type_is_kind_of_ParentOnly(mk, type) ==
    mk.vtable = type \/ registry[mk.vtable].super = type

mk_type_is_kind_of(mk, type) ==
    mk_type_is_kind_of_loop(mk.vtable, type)

RECURSIVE mk_type_name_loop(_)
mk_type_name_loop(vtable) ==
    IF vtable = NULL THEN NullDereference
    ELSE IF registry[vtable].name = NULL
    THEN mk_type_name_loop(registry[vtable].super)
    ELSE registry[vtable].name

mk_type_name_OwnSlot(mk) == registry[mk.vtable].name

mk_type_name(mk) == mk_type_name_loop(mk.vtable)

\* snprintf(output, output_len, "<%s %p>", mk_type_name(self), self): the
\* text and its length depend on the platform's rendering of %p, so the
\* returned count is kept as the format and its arguments.
__mk_type_copy_description(self, output_len) ==
    [format |-> "<%s %p>", name |-> mk_type_name(self), self |-> self,
     output_len |-> output_len]

\* What a walk that found the function fn for the get_context slot returns:
\* the root's function is the one above; what the function of a concrete
\* type returns is not part of the core, and the result is then left as
\* "what callee returned".
CallGetContext(fn, mk) ==
    IF fn = NullDereference THEN [callee |-> NullDereference]
    ELSE IF fn = "__mk_type_get_context"
    THEN [callee |-> fn, context |-> __mk_type_get_context(mk)]
    ELSE [callee |-> fn]

CallEqual(fn, mk1, mk2) ==
    IF fn = NullDereference THEN [callee |-> NullDereference]
    ELSE IF fn = "__mk_type_equal"
    THEN [callee |-> fn, bool |-> __mk_type_equal(mk1, mk2)]
    ELSE [callee |-> fn]

CallCopyDescription(fn, mk, output_len) ==
    IF fn = NullDereference THEN [callee |-> NullDereference]
    ELSE IF fn = "__mk_type_copy_description"
    THEN [callee |-> fn, snprintf |-> __mk_type_copy_description(mk, output_len)]
    ELSE [callee |-> fn]

RECURSIVE mk_type_get_context_loop(_)
mk_type_get_context_loop(vtable) ==
    IF vtable = NULL THEN NullDereference
    ELSE IF registry[vtable].get_context = NULL
    THEN mk_type_get_context_loop(registry[vtable].super)
    ELSE registry[vtable].get_context

mk_type_get_context(mk) ==
    CallGetContext(mk_type_get_context_loop(mk.vtable), mk)

RECURSIVE mk_type_equal_loop(_)
mk_type_equal_loop(vtable) ==
    IF vtable = NULL THEN NullDereference
    ELSE IF registry[vtable].equal = NULL
    THEN mk_type_equal_loop(registry[vtable].super)
    ELSE registry[vtable].equal

mk_type_equal(mk1, mk2) ==
    CallEqual(mk_type_equal_loop(mk1.vtable), mk1, mk2)

RECURSIVE mk_type_copy_description_loop(_)
mk_type_copy_description_loop(vtable) ==
    IF vtable = NULL THEN NullDereference
    ELSE IF registry[vtable].copy_description = NULL
    THEN mk_type_copy_description_loop(registry[vtable].super)
    ELSE registry[vtable].copy_description

mk_type_copy_description(mk, output_len) ==
    CallCopyDescription(mk_type_copy_description_loop(mk.vtable), mk, output_len)

-----------------------------------------------------------------------------
(* The client of the core: initial states.                                 *)

NoCall == [fn |-> "none"]
NoRet == [none |-> "none"]
NoField == [kind |-> "none", length |-> 0, value |-> 0, bytes |-> <<>>]

\* The core by itself holds only the root vtable.
CoreRegistry == [v \in {RootAddr} |-> _mk_type_class]

\* Every buffer of at most MaxBufLen bytes.
Buffers == UNION {[1..n -> UInt8] : n \in 0..MaxBufLen}

\* What a decoder reads from the binary: a 16, 32 or 64 bit field (`value`,
\* of `length` bytes), or a span of `length` bytes at the start of a buffer
\* (`bytes`).
Fields ==
    [kind : {"uint16"}, length : {2}, value : UInt16, bytes : {<<>>}]
    \cup [kind : {"uint32"}, length : {4}, value : UInt32, bytes : {<<>>}]
    \cup [kind : {"uint64"}, length : {8}, value : UInt64, bytes : {<<>>}]
    \cup UNION {[kind : {"bytes"}, length : 0..Len(b), value : {0}, bytes : {b}] :
                b \in Buffers}

Idle ==
    /\ call = NoCall
    /\ ret = NoRet

InitArith ==
    /\ Idle
    /\ cell \in Word
    /\ registry = CoreRegistry
    /\ byteorder = mk_byteorder_direct
    /\ data = NoField /\ orig = NoField /\ nswaps = 0

InitRange ==
    /\ Idle
    /\ cell = 0
    /\ registry = CoreRegistry
    /\ byteorder = mk_byteorder_direct
    /\ data = NoField /\ orig = NoField /\ nswaps = 0

InitByteOrder ==
    /\ Idle
    /\ cell = 0
    /\ registry = CoreRegistry
    /\ byteorder \in {mk_byteorder_direct, mk_byteorder_swapped}
    /\ data \in Fields
    /\ orig = data
    /\ nswaps = 0

InitTypes ==
    /\ Idle
    /\ cell = 0
    /\ registry \in Registries
    /\ byteorder = mk_byteorder_direct
    /\ data = NoField /\ orig = NoField /\ nswaps = 0

-----------------------------------------------------------------------------
(* Calls of the checked arithmetic.  `mem` records the content of the      *)
(* caller's variable when the call was made.                               *)

ResultPointers == {NULL, "&cell"}

ApplyOffset ==
    /\ call = NoCall
    /\ \E addr \in Word, offset \in Word, result \in ResultPointers :
        LET r == mk_vm_address_apply_offset(addr, offset, result, cell)
        IN  /\ call' = [fn |-> "mk_vm_address_apply_offset", addr |-> addr,
                        offset |-> offset, result |-> result, mem |-> cell]
            /\ ret' = [err |-> r.err]
            /\ cell' = r.mem
    /\ UNCHANGED <<registry, byteorder, data, orig, nswaps>>

Add ==
    /\ call = NoCall
    /\ \E addr1 \in Word, addr2 \in Word, result \in ResultPointers :
        LET r == mk_vm_address_add(addr1, addr2, result, cell)
        IN  /\ call' = [fn |-> "mk_vm_address_add", addr1 |-> addr1,
                        addr2 |-> addr2, result |-> result, mem |-> cell,
                        after |-> "none"]
            /\ ret' = [err |-> r.err]
            /\ cell' = r.mem
    /\ UNCHANGED <<registry, byteorder, data, orig, nswaps>>

Substract ==
    /\ call = NoCall
    /\ \E left \in Word, right \in Word, result \in ResultPointers :
        LET r == mk_vm_address_substract(left, right, result, cell)
        IN  /\ call' = [fn |-> "mk_vm_address_substract", left |-> left,
                        right |-> right, result |-> result, mem |-> cell]
            /\ ret' = [err |-> r.err]
            /\ cell' = r.mem
    /\ UNCHANGED <<registry, byteorder, data, orig, nswaps>>

\* The client adds the subtrahend back to the difference a successful
\* subtraction stored in its variable.
AddBack ==
    /\ call.fn = "mk_vm_address_substract"
    /\ ret.err = MK_ESUCCESS
    /\ call.result # NULL
    /\ LET r == mk_vm_address_add(cell, call.right, "&cell", cell)
       IN  /\ call' = [fn |-> "mk_vm_address_add", addr1 |-> cell,
                       addr2 |-> call.right, result |-> "&cell", mem |-> cell,
                       after |-> "mk_vm_address_substract", left |-> call.left]
           /\ ret' = [err |-> r.err]
           /\ cell' = r.mem
    /\ UNCHANGED <<registry, byteorder, data, orig, nswaps>>

CheckLength ==
    /\ call = NoCall
    /\ \E addr \in Word, length \in Word :
        /\ call' = [fn |-> "mk_vm_address_check_length", addr |-> addr,
                    length |-> length]
        /\ ret' = [err |-> mk_vm_address_check_length(addr, length)]
    /\ UNCHANGED <<cell, registry, byteorder, data, orig, nswaps>>

NextArith == ApplyOffset \/ Add \/ Substract \/ AddBack \/ CheckLength

SpecArith == InitArith /\ [][NextArith]_vars

-----------------------------------------------------------------------------
(* Calls of the range functions.                                           *)

ContainsAddress ==
    /\ call = NoCall
    /\ \E location \in Word, length \in Word, offset \in Word, address \in Word :
        LET range == mk_vm_range_make(location, length)
        IN  /\ call' = [fn |-> "mk_vm_range_contains_address", range |-> range,
                        offset |-> offset, address |-> address]
            /\ ret' = [err |-> mk_vm_range_contains_address(range, offset, address)]
    /\ UNCHANGED <<cell, registry, byteorder, data, orig, nswaps>>

ContainsRange ==
    /\ call = NoCall
    /\ \E outer_location \in Word, outer_length \in Word,
          inner_location \in Word, inner_length \in Word, partial \in BOOLEAN :
        LET outer_range == mk_vm_range_make(outer_location, outer_length)
            inner_range == mk_vm_range_make(inner_location, inner_length)
        IN  /\ call' = [fn |-> "mk_vm_range_contains_range",
                        outer_range |-> outer_range, inner_range |-> inner_range,
                        partial |-> partial]
            /\ ret' = [err |-> mk_vm_range_contains_range(outer_range, inner_range,
                                                          partial)]
    /\ UNCHANGED <<cell, registry, byteorder, data, orig, nswaps>>

NextRange == ContainsAddress \/ ContainsRange

SpecRange == InitRange /\ [][NextRange]_vars

-----------------------------------------------------------------------------
(* The decoder applies an operation of its byte order to a field and keeps *)
(* the result in place of the field.                                       *)

Swap16 ==
    /\ data.kind = "uint16"
    /\ nswaps < MaxSwaps
    /\ call' = [fn |-> byteorder.swap16, input |-> data.value]
    /\ ret' = [value |-> CallSwap16(byteorder.swap16, data.value)]
    /\ data' = [data EXCEPT !.value = ret'.value]
    /\ nswaps' = nswaps + 1
    /\ UNCHANGED <<cell, registry, byteorder, orig>>

Swap32 ==
    /\ data.kind = "uint32"
    /\ nswaps < MaxSwaps
    /\ call' = [fn |-> byteorder.swap32, input |-> data.value]
    /\ ret' = [value |-> CallSwap32(byteorder.swap32, data.value)]
    /\ data' = [data EXCEPT !.value = ret'.value]
    /\ nswaps' = nswaps + 1
    /\ UNCHANGED <<cell, registry, byteorder, orig>>

Swap64 ==
    /\ data.kind = "uint64"
    /\ nswaps < MaxSwaps
    /\ call' = [fn |-> byteorder.swap64, input |-> data.value]
    /\ ret' = [value |-> CallSwap64(byteorder.swap64, data.value)]
    /\ data' = [data EXCEPT !.value = ret'.value]
    /\ nswaps' = nswaps + 1
    /\ UNCHANGED <<cell, registry, byteorder, orig>>

\* The generic swap works in the caller's buffer and returns its address:
\* `ret` is the buffer as the returned pointer sees it.
SwapBuffer ==
    /\ data.kind = "bytes"
    /\ nswaps < MaxSwaps
    /\ call' = [fn |-> byteorder.swap, input |-> data.bytes,
                length |-> data.length]
    /\ data' = [data EXCEPT !.bytes = CallSwap(byteorder.swap, data.bytes, data.length)]
    /\ ret' = [bytes |-> data'.bytes]
    /\ nswaps' = nswaps + 1
    /\ UNCHANGED <<cell, registry, byteorder, orig>>

NextByteOrder == Swap16 \/ Swap32 \/ Swap64 \/ SwapBuffer

SpecByteOrder == InitByteOrder /\ [][NextByteOrder]_vars

-----------------------------------------------------------------------------
(* Calls of the type runtime.                                              *)

\* What a caller may pass as `type`: the address of any vtable, or NULL.
TypeArguments == Descriptors \cup {NULL}

OutputLens == {0, 32}

TypeIs ==
    /\ call = NoCall
    /\ \E mk \in Handles, type \in TypeArguments :
        /\ call' = [fn |-> "mk_type_is", mk |-> mk, type |-> type]
        /\ ret' = [bool |-> mk_type_is(mk, type)]
    /\ UNCHANGED <<cell, registry, byteorder, data, orig, nswaps>>

TypeIsKindOf ==
    /\ call = NoCall
    /\ \E mk \in Handles, type \in TypeArguments :
        /\ call' = [fn |-> "mk_type_is_kind_of", mk |-> mk, type |-> type]
        /\ ret' = [bool |-> mk_type_is_kind_of(mk, type)]
    /\ UNCHANGED <<cell, registry, byteorder, data, orig, nswaps>>

TypeName ==
    /\ call = NoCall
    /\ \E mk \in Handles :
        /\ call' = [fn |-> "mk_type_name", mk |-> mk]
        /\ ret' = [name |-> mk_type_name(mk)]
    /\ UNCHANGED <<cell, registry, byteorder, data, orig, nswaps>>

TypeGetContext ==
    /\ call = NoCall
    /\ \E mk \in Handles :
        /\ call' = [fn |-> "mk_type_get_context", mk |-> mk]
        /\ ret' = mk_type_get_context(mk)
    /\ UNCHANGED <<cell, registry, byteorder, data, orig, nswaps>>

TypeEqual ==
    /\ call = NoCall
    /\ \E mk1 \in Handles, mk2 \in Handles :
        /\ call' = [fn |-> "mk_type_equal", mk |-> mk1, mk2 |-> mk2]
        /\ ret' = mk_type_equal(mk1, mk2)
    /\ UNCHANGED <<cell, registry, byteorder, data, orig, nswaps>>

TypeCopyDescription ==
    /\ call = NoCall
    /\ \E mk \in Handles, output_len \in OutputLens :
        /\ call' = [fn |-> "mk_type_copy_description", mk |-> mk,
                    output_len |-> output_len]
        /\ ret' = mk_type_copy_description(mk, output_len)
    /\ UNCHANGED <<cell, registry, byteorder, data, orig, nswaps>>

NextTypes ==
    \/ TypeIs \/ TypeIsKindOf \/ TypeName
    \/ TypeGetContext \/ TypeEqual \/ TypeCopyDescription

SpecTypes == InitTypes /\ [][NextTypes]_vars

-----------------------------------------------------------------------------
(* Checked arithmetic: properties.                                         *)

\* C1: mk_vm_address_apply_offset(a, o) returns Success iff the mathematical
\* sum a + o is at most Address-max and Overflow otherwise; on Success the
\* pointee of a non-null `result` holds the exact sum, and on Overflow (or
\* with a null `result`) the caller's variable is left as it was.
C1_ApplyOffsetExact ==
    call.fn = "mk_vm_address_apply_offset" =>
        /\ ret.err \in {MK_ESUCCESS, MK_EOVERFLOW}
        /\ (ret.err = MK_ESUCCESS) <=> (call.addr + call.offset <= MK_VM_ADDRESS_MAX)
        /\ (ret.err = MK_ESUCCESS /\ call.result # NULL) =>
                cell = call.addr + call.offset
        /\ (ret.err = MK_EOVERFLOW \/ call.result = NULL) => cell = call.mem

\* C1 witness: a sum that lands exactly on Address-max is stored.
C1_Witness ==
    /\ call.fn = "mk_vm_address_apply_offset"
    /\ call.offset > 0 /\ call.addr > 0
    /\ call.addr + call.offset = MK_VM_ADDRESS_MAX
    /\ call.result # NULL
    /\ ret.err = MK_ESUCCESS
    /\ cell = MK_VM_ADDRESS_MAX /\ call.mem # cell

\* C2: mk_vm_address_substract(a, b) returns Underflow iff b > a, otherwise
\* Success with the result exactly a - b; and adding b back to the stored
\* difference with mk_vm_address_add succeeds and yields a again.
C2_SubstractRoundTrip ==
    /\ call.fn = "mk_vm_address_substract" =>
        /\ ret.err \in {MK_ESUCCESS, MK_EUNDERFLOW}
        /\ (ret.err = MK_EUNDERFLOW) <=> (call.right > call.left)
        /\ (ret.err = MK_ESUCCESS /\ call.result # NULL) =>
                cell = call.left - call.right
        /\ (ret.err = MK_EUNDERFLOW \/ call.result = NULL) => cell = call.mem
    /\ (call.fn = "mk_vm_address_add" /\ call.after = "mk_vm_address_substract") =>
        /\ call.addr1 = call.left - call.addr2
        /\ ret.err = MK_ESUCCESS
        /\ cell = call.left

\* C2 witness: a non-zero subtrahend was subtracted and added back.
C2_Witness ==
    /\ call.fn = "mk_vm_address_add"
    /\ call.after = "mk_vm_address_substract"
    /\ call.addr2 > 0 /\ call.addr1 > 0
    /\ cell = call.left /\ cell # call.mem

-----------------------------------------------------------------------------
(* Ranges: properties.                                                     *)

RangeEnd(range) == range.location + range.length
RangeOverflows(range) == RangeEnd(range) > MK_VM_SIZE_MAX
RangeAddresses(range) ==
    {x \in Word : range.location <= x /\ x < RangeEnd(range)}

\* C3: when neither a + o nor location + length overflows,
\* mk_vm_range_contains_address returns Success iff
\* location <= a + o < location + length and NotFound otherwise: the first
\* address is contained, the one past the end and the one before the start
\* are not, and a range of length 0 contains nothing.
C3_ContainsAddressExact ==
    (/\ call.fn = "mk_vm_range_contains_address"
     /\ call.address + call.offset <= MK_VM_ADDRESS_MAX
     /\ ~RangeOverflows(call.range)) =>
        LET a == call.address + call.offset
            r == call.range
        IN  /\ ret.err \in {MK_ESUCCESS, MK_ENOT_FOUND}
            /\ (ret.err = MK_ESUCCESS) <=> (r.location <= a /\ a < RangeEnd(r))
            /\ (a = r.location /\ r.length > 0) => ret.err = MK_ESUCCESS
            /\ a = RangeEnd(r) => ret.err = MK_ENOT_FOUND
            /\ a + 1 = r.location => ret.err = MK_ENOT_FOUND
            /\ r.length = 0 => ret.err = MK_ENOT_FOUND

\* C3 witness: make(10, 5) does not contain 15, the address one past its end.
C3_Witness ==
    /\ call.fn = "mk_vm_range_contains_address"
    /\ call.range = mk_vm_range_make(10, 5)
    /\ call.offset = 0 /\ call.address = 15
    /\ ret.err = MK_ENOT_FOUND

\* C4: mk_vm_range_contains_address returns Overflow whenever
\* location + length overflows, whatever the address and the offset are,
\* and whenever a + o overflows: never Success or NotFound.
C4_ContainsAddressOverflowFirst ==
    call.fn = "mk_vm_range_contains_address" =>
        /\ RangeOverflows(call.range) => ret.err = MK_EOVERFLOW
        /\ call.address + call.offset > MK_VM_ADDRESS_MAX => ret.err = MK_EOVERFLOW

\* C4 witness: the range overflows although the displaced address does not
\* and lies at or after the start of the range.
C4_Witness ==
    /\ call.fn = "mk_vm_range_contains_address"
    /\ RangeOverflows(call.range)
    /\ call.offset > 0
    /\ call.address + call.offset <= MK_VM_ADDRESS_MAX
    /\ call.address + call.offset >= call.range.location
    /\ ret.err = MK_EOVERFLOW

\* C5: in strict mode mk_vm_range_contains_range returns Overflow if either
\* range overflows; otherwise Success iff inner.location >= outer.location
\* and inner's end <= outer's end, and NotFound otherwise.  An inner range
\* equal to the outer one is contained; one with the same start and a
\* greater length is not.
C5_ContainsRangeStrict ==
    (call.fn = "mk_vm_range_contains_range" /\ ~call.partial) =>
        LET outer == call.outer_range
            inner == call.inner_range
        IN  IF RangeOverflows(outer) \/ RangeOverflows(inner)
            THEN ret.err = MK_EOVERFLOW
            ELSE /\ ret.err \in {MK_ESUCCESS, MK_ENOT_FOUND}
                 /\ (ret.err = MK_ESUCCESS) <=>
                        (/\ inner.location >= outer.location
                         /\ RangeEnd(inner) <= RangeEnd(outer))
                 /\ inner = outer => ret.err = MK_ESUCCESS
                 /\ (inner.location = outer.location
                     /\ inner.length > outer.length) => ret.err = MK_ENOT_FOUND

\* C5 witness: make(0, 10) contains make(0, 10), the exact fit.
C5_Witness ==
    /\ call.fn = "mk_vm_range_contains_range"
    /\ ~call.partial
    /\ call.outer_range = mk_vm_range_make(0, 10)
    /\ call.inner_range = mk_vm_range_make(0, 10)
    /\ ret.err = MK_ESUCCESS

PartialCall ==
    /\ call.fn = "mk_vm_range_contains_range"
    /\ call.partial
    /\ ~RangeOverflows(call.outer_range)
    /\ ~RangeOverflows(call.inner_range)

ShareAnAddress(outer, inner) ==
    RangeAddresses(outer) \cap RangeAddresses(inner) # {}

\* inner ends strictly before outer's location, or starts strictly after
\* outer's end.
Apart(outer, inner) ==
    \/ RangeEnd(inner) < outer.location
    \/ inner.location > RangeEnd(outer)

\* C6 as stated: in partial mode mk_vm_range_contains_range is an overlap
\* test, Success whenever the two ranges share an address and NotFound
\* whenever they share none.
C6_PartialIsOverlapTest ==
    PartialCall =>
        /\ ShareAnAddress(call.outer_range, call.inner_range) => ret.err = MK_ESUCCESS
        /\ ~ShareAnAddress(call.outer_range, call.inner_range) => ret.err = MK_ENOT_FOUND

\* C6 amended: in partial mode mk_vm_range_contains_range returns Success
\* whenever the two ranges share an address; for two ranges that share no
\* address it returns NotFound when inner ends strictly before outer's
\* location or starts strictly after outer's end, and Success when they
\* touch or one is an empty range within the other's bounds.
C6_PartialOverlapOrTouch ==
    PartialCall =>
        LET outer == call.outer_range
            inner == call.inner_range
        IN  /\ ret.err \in {MK_ESUCCESS, MK_ENOT_FOUND}
            /\ ShareAnAddress(outer, inner) => ret.err = MK_ESUCCESS
            /\ (~ShareAnAddress(outer, inner) /\ Apart(outer, inner)) =>
                    ret.err = MK_ENOT_FOUND
            /\ (~ShareAnAddress(outer, inner) /\ ~Apart(outer, inner)) =>
                    ret.err = MK_ESUCCESS

\* C6 witness: two non-empty ranges that only touch (inner starts at
\* outer's end) are accepted.
C6_Witness ==
    /\ PartialCall
    /\ call.outer_range.length > 0 /\ call.inner_range.length > 0
    /\ call.inner_range.location = RangeEnd(call.outer_range)
    /\ ~ShareAnAddress(call.outer_range, call.inner_range)
    /\ ret.err = MK_ESUCCESS

\* C7: in partial mode, for ranges that do not overflow,
\* mk_vm_range_contains_range returns NotFound only when
\* (inner.location < outer.location and inner's end < outer.location) or
\* inner.location > outer's end; every other configuration, an inner range
\* straddling the outer one included, returns Success.
C7_PartialNotFoundCases ==
    PartialCall =>
        LET outer == call.outer_range
            inner == call.inner_range
        IN  /\ (ret.err = MK_ENOT_FOUND) <=>
                    \/ (/\ inner.location < outer.location
                        /\ RangeEnd(inner) < outer.location)
                    \/ inner.location > RangeEnd(outer)
            /\ ret.err # MK_ENOT_FOUND => ret.err = MK_ESUCCESS
            /\ (inner.location < outer.location
                /\ RangeEnd(inner) > RangeEnd(outer)) => ret.err = MK_ESUCCESS

\* C7 witness: inner starts before and ends after a non-empty outer range.
C7_Witness ==
    /\ PartialCall
    /\ call.outer_range.length > 0
    /\ call.inner_range.location < call.outer_range.location
    /\ RangeEnd(call.inner_range) > RangeEnd(call.outer_range)
    /\ ret.err = MK_ESUCCESS

-----------------------------------------------------------------------------
(* Byte order: properties.                                                 *)

\* value is the byte reversal of the w-byte number original.
ReversedNumber(value, original, w) ==
    \A i \in 0..(w - 1) : ByteAt(value, i) = ByteAt(original, w - 1 - i)

\* buffer is original with its first n bytes in reverse order and the
\* bytes after them untouched.
ReversedSpan(buffer, original, n) ==
    /\ Len(buffer) = Len(original)
    /\ \A i \in 1..n : buffer[i] = original[n + 1 - i]
    /\ \A i \in (n + 1)..Len(original) : buffer[i] = original[i]

\* C8: for w in {16, 32, 64} the swapped byte order's swapW reverses the
\* bytes of a value and applied twice returns the value; the direct byte
\* order's swapW returns the value unchanged.  The buffer operation of the
\* swapped order reverses a span of any length in place (byte i becomes the
\* former byte length-1-i), two applications restore it, and it returns the
\* span; the direct order leaves the span unchanged.
C8_ByteOrderRoundTrip ==
    /\ data.kind = orig.kind /\ data.length = orig.length
    /\ (nswaps > 0 /\ data.kind = "bytes") => ret.bytes = data.bytes
    /\ (nswaps > 0 /\ data.kind # "bytes") => ret.value = data.value
    /\ byteorder = mk_byteorder_direct => data = orig
    /\ (byteorder = mk_byteorder_swapped /\ nswaps % 2 = 0) => data = orig
    /\ (byteorder = mk_byteorder_swapped /\ nswaps % 2 = 1) =>
        IF data.kind = "bytes"
        THEN ReversedSpan(data.bytes, orig.bytes, data.length)
        ELSE ReversedNumber(data.value, orig.value, data.length)

\* C8 witness: a span of odd length whose ends differ, inside a longer
\* buffer, was reversed and restored by the swapped byte order.
C8_Witness ==
    /\ byteorder = mk_byteorder_swapped
    /\ data.kind = "bytes"
    /\ data.length = 3
    /\ Len(orig.bytes) > 3
    /\ orig.bytes[1] # orig.bytes[3]
    /\ nswaps = 2
    /\ call.fn = "_mk_swap"
    /\ call.input # data.bytes
    /\ data = orig

-----------------------------------------------------------------------------
(* Type runtime: properties.                                               *)

\* The descriptor v and its ancestors.
RECURSIVE Chain(_)
Chain(v) == IF v = NULL THEN {} ELSE {v} \cup Chain(registry[v].super)

\* The descriptor of the chain of v nearest to v that fills the slot: every
\* descriptor of the chain that fills it is that one or one of its ancestors.
Nearest(v, slot) ==
    CHOOSE c \in Chain(v) :
        /\ registry[c][slot] # NULL
        /\ \A d \in Chain(v) : registry[d][slot] # NULL => d \in Chain(c)

\* No concrete type of the chain of v fills the slot.
NoOverride(v, slot) ==
    \A c \in Chain(v) \ {RootAddr} : registry[c][slot] = NULL

\* C9: mk_type_is_kind_of(handle, T) is true iff T is the handle's
\* descriptor D or an ancestor of D: true for the root and for D itself,
\* false for a sibling of D; and mk_type_is(handle, T), true iff T is
\* exactly D, implies mk_type_is_kind_of(handle, T).
C9_KindOfIsAncestry ==
    /\ call.fn = "mk_type_is_kind_of" =>
        LET D == call.mk.vtable
            T == call.type
        IN  /\ ret.bool <=> (T \in Chain(D))
            /\ T = RootAddr => ret.bool
            /\ T = D => ret.bool
            /\ (/\ T \in Descriptors \ {RootAddr}
                /\ D # RootAddr
                /\ T # D
                /\ registry[T].super = registry[D].super) => ~ret.bool
    /\ call.fn = "mk_type_is" =>
        /\ ret.bool <=> (call.type = call.mk.vtable)
        /\ ret.bool => mk_type_is_kind_of(call.mk, call.type)

\* C9 witness: a handle is a kind of its grandparent, two links up.
C9_Witness ==
    /\ call.fn = "mk_type_is_kind_of"
    /\ call.mk.vtable # RootAddr
    /\ registry[call.mk.vtable].super # RootAddr
    /\ call.type = registry[registry[call.mk.vtable].super].super
    /\ ret.bool

\* C10: every dispatch walk of mk_type_name, mk_type_get_context,
\* mk_type_equal and mk_type_copy_description ends without stepping past
\* the root and resolves to the slot of the nearest descriptor, from the
\* handle's own one, that fills that slot, each slot on its own.  So
\* mk_type_name never returns an absent name, and with no override in the
\* chain mk_type_get_context returns no context and mk_type_equal(h, h) is
\* true.
C10_DispatchNearestSlot ==
    /\ call.fn = "mk_type_name" =>
        /\ ret.name # NullDereference
        /\ ret.name # NULL
        /\ ret.name = registry[Nearest(call.mk.vtable, "name")].name
    /\ call.fn = "mk_type_get_context" =>
        /\ ret.callee # NullDereference
        /\ ret.callee = registry[Nearest(call.mk.vtable, "get_context")].get_context
        /\ NoOverride(call.mk.vtable, "get_context") => ret.context = NULL
    /\ call.fn = "mk_type_equal" =>
        /\ ret.callee # NullDereference
        /\ ret.callee = registry[Nearest(call.mk.vtable, "equal")].equal
        /\ (NoOverride(call.mk.vtable, "equal") /\ call.mk2 = call.mk) =>
                ret.bool = TRUE
    /\ call.fn = "mk_type_copy_description" =>
        /\ ret.callee # NullDereference
        /\ ret.callee = registry[Nearest(call.mk.vtable, "copy_description")].copy_description

\* C10 witness: a type that fills its name but not its equality is compared
\* by the function of its parent, a concrete type, one link up.
C10_Witness ==
    /\ call.fn = "mk_type_equal"
    /\ registry[call.mk.vtable].name # NULL
    /\ registry[call.mk.vtable].equal = NULL
    /\ registry[call.mk.vtable].super # RootAddr
    /\ ret.callee = registry[registry[call.mk.vtable].super].equal
    /\ ret.callee # NULL

=============================================================================
